---- MODULE Spec2Model ----
(***************************************************************************)
(* A state-machine model of greenrun.go: the GreenRunner configuration,    *)
(* the recursive generation step doGreenRun with its override /            *)
(* self-generation / default lookup (tryCustom), the Continue re-entry     *)
(* points, and the random stream the steps draw from.                      *)
(*                                                                         *)
(* The recursion of doGreenRun is unfolded into an explicit stack of       *)
(* frames per call, so that depth, termination and panics are visible.     *)
(* A slot is modelled by the value it holds: a frame carries the current   *)
(* value of its slot and the return step writes it back into the slot of   *)
(* the caller (generated values are trees, reflect.New / MakeSlice /       *)
(* MakeMap never alias anything).                                          *)
(***************************************************************************)
EXTENDS Integers, Sequences, FiniteSets, TLC

----------------------------------------------------------------------------
(* Bounds of the model *)

\* raw words of the random stream are 0 .. RandN-1
RandN == 2
\* NumElements arguments range over -1 .. MaxElems
MaxElems == 1
\* MaxDepth arguments range over -1 .. MaxDepthBound
MaxDepthBound == 3
\* number of GreenRun calls a program makes on one GreenRunner
MaxCalls == 2
\* frames a call stack may hold before the model stops pushing
MaxStack == 12

----------------------------------------------------------------------------
(* float64 values: a grid of multiples of 1/NilScale, and NaN *)

NilScale == 2 * RandN
NaN == [nan |-> TRUE, v |-> 0]
F(n) == [nan |-> FALSE, v |-> n]
\* Go's < and > on float64: false whenever an operand is NaN
FLt(a, b) == ~a.nan /\ ~b.nan /\ a.v < b.v
FGt(a, b) == FLt(b, a)
\* r.Float64() for the raw word d: d/RandN, in [0, 1)
Float64(d) == F(2 * d)

----------------------------------------------------------------------------
(* Types (reflect.Type).  A type is a sequence of strings: a base type     *)
(* name preceded by one "*" per pointer level.                             *)

T(name) == <<name>>
PtrTo(t) == <<"*">> \o t
Fld(t, exported) == [t |-> t, exp |-> exported]

BaseTypes ==
    { "bool", "int", "complex128", "unsafeptr", "chan", "func", "iface",
      "[]bool", "map[bool]bool", "[2]bool", "Node", "Tree", "[]Tree",
      "Web", "map[bool]Web", "Counter", "Hidden", "Bad", "E", "M",
      "Time" }

\* reflect.Kind of a base type
BaseKind(b) ==
    CASE b \in {"bool", "int", "complex128", "unsafeptr", "chan", "func"} -> b
      [] b = "iface" -> "interface"
      [] b \in {"[]bool", "[]Tree"} -> "slice"
      [] b \in {"map[bool]bool", "map[bool]Web", "M"} -> "map"
      [] b = "[2]bool" -> "array"
      [] OTHER -> "struct"

Kind(t) == IF t[1] = "*" THEN "ptr" ELSE BaseKind(t[1])

\* reflect.Type.Elem()
Elem(t) ==
    CASE t[1] = "*" -> Tail(t)
      [] t[1] \in {"[]bool", "map[bool]bool", "[2]bool"} -> T("bool")
      [] t[1] = "M" -> T("E")
      [] t[1] = "[]Tree" -> T("Tree")
      [] t[1] = "map[bool]Web" -> T("Web")

\* reflect.Type.Key()
KeyOf(t) == T("bool")

\* reflect.Type.Len() of an array type
ArrayLen(t) == 2

\* the fields of a struct type, with their exportedness
Fields(t) ==
    CASE t[1] = "E" -> << >>
      [] t[1] = "Node" -> << Fld(PtrTo(T("Node")), TRUE) >>
      [] t[1] = "Tree" -> << Fld(T("[]Tree"), TRUE) >>
      [] t[1] = "Web" -> << Fld(T("map[bool]Web"), TRUE) >>
      [] t[1] = "Counter" -> << Fld(T("int"), TRUE) >>
      [] t[1] = "Hidden" -> << Fld(T("chan"), FALSE), Fld(T("bool"), TRUE) >>
      [] t[1] = "Bad" -> << Fld(T("bool"), TRUE), Fld(T("chan"), TRUE) >>
      [] t[1] = "Time" -> << Fld(T("int"), FALSE) >>

----------------------------------------------------------------------------
(* Values (reflect.Value contents) *)

Prim(n) == [k |-> "prim", x |-> n]
Nil == [k |-> "nil"]
Ptr(e) == [k |-> "ptr", e |-> e]
SeqV(s) == [k |-> "seq", s |-> s]
MapV(m) == [k |-> "map", m |-> m]
StructV(f) == [k |-> "struct", f |-> f]

IsNil(v) == v.k = "nil"

RECURSIVE Zero(_)
\* reflect.Zero(t)
Zero(t) ==
    CASE Kind(t) \in {"bool", "int", "complex128", "unsafeptr"} -> Prim(0)
      [] Kind(t) \in {"chan", "func", "interface", "ptr", "map", "slice"} -> Nil
      [] Kind(t) = "array" -> SeqV([i \in 1..ArrayLen(t) |-> Zero(Elem(t))])
      [] Kind(t) = "struct" ->
            StructV([i \in 1..Len(Fields(t)) |-> Zero(Fields(t)[i].t)])

\* reflect.MakeSlice(t, n, n)
MakeSlice(t, n) == SeqV([i \in 1..n |-> Zero(Elem(t))])

\* reflect.MakeMap(t)
MakeMap == MapV(<<>>)

\* reflect.Value.SetMapIndex(key, val) on a non-nil map: a later write to
\* an existing key replaces the entry
SetMapIndex(mv, key, val) ==
    IF \E j \in 1..Len(mv.m) : mv.m[j][1] = key
    THEN MapV([j \in 1..Len(mv.m) |->
                  IF mv.m[j][1] = key THEN <<key, val>> ELSE mv.m[j]])
    ELSE MapV(Append(mv.m, <<key, val>>))

\* len() of a generated map or slice
LenV(v) == IF v.k = "map" THEN Len(v.m) ELSE IF v.k = "seq" THEN Len(v.s) ELSE 0

RECURSIVE Mark(_)
\* the fixed non-zero value a "set" function literal stores in its target
Mark(t) ==
    CASE Kind(t) \in {"bool", "int", "complex128", "unsafeptr"} -> Prim(1)
      [] Kind(t) \in {"chan", "func", "interface"} -> Ptr(Prim(1))
      [] Kind(t) = "ptr" -> Ptr(Zero(Elem(t)))
      [] Kind(t) = "slice" -> SeqV(<<Zero(Elem(t))>>)
      [] Kind(t) = "map" -> MapV(<< <<Prim(1), Zero(Elem(t))>> >>)
      [] Kind(t) = "array" -> SeqV([i \in 1..ArrayLen(t) |-> Mark(Elem(t))])
      [] Kind(t) = "struct" ->
            StructV([i \in 1..Len(Fields(t)) |-> Mark(Fields(t)[i].t)])

----------------------------------------------------------------------------
(* Programs: the types a client declares, the function literals it hands   *)
(* to Funcs, and the object it fills.                                      *)

\* a function literal func(x K, c Continue) and what its body does
Lit(key, beh) == [key |-> key, beh |-> beh]
\* a type N declaring GreenRun(c Continue) on receiver N ("val") or *N ("ptr")
Meth(name, recv, beh) == [name |-> name, recv |-> recv, beh |-> beh]

Prog(t, fl, sg) == [t |-> t, fl |-> fl, sg |-> sg]

\* the entry point a program calls
Entries == {"GreenRun", "GreenRunNoCustom"}
\* what it passes as obj: a pointer to the object, a nil pointer, or
\* something that is not a pointer
Objs == {"ptr", "nilptr", "nonptr"}
\* what the object of a call holds before the call: its zero value, or
\* values the client has stored
Inits == {"zero", "mark"}

PlainTargets ==
    { T("bool"), T("int"), PtrTo(T("bool")), T("[]bool"), T("map[bool]bool"),
      T("[2]bool"), T("Node"), T("Tree"), T("Web"), T("complex128"),
      T("unsafeptr"), T("chan"), T("func"), T("iface"), T("Hidden"), T("Bad"),
      T("Time"), PtrTo(T("Time")), T("Counter") }

PNode == PtrTo(T("Node"))
PPNode == PtrTo(PNode)

Programs ==
    { Prog(t, <<>>, {}) : t \in PlainTargets }
    \cup
    { Prog(T("Counter"), <<Lit(PtrTo(T("int")), "counter")>>, {}),
      Prog(T("bool"), <<Lit(PtrTo(T("bool")), "rand")>>, {}),
      Prog(T("chan"), <<Lit(PtrTo(T("chan")), "set")>>, {}),
      Prog(T("Node"), <<Lit(PNode, "set")>>, {}),
      Prog(T("Node"), <<Lit(PNode, "cont")>>, {}),
      Prog(T("Node"), <<Lit(PNode, "contNC")>>, {}),
      Prog(T("Node"), <<Lit(PNode, "noop"), Lit(PNode, "set")>>, {}),
      Prog(T("Node"), <<Lit(PNode, "set"), Lit(T("Node"), "set")>>, {}),
      Prog(T("[]bool"), <<Lit(PtrTo(T("[]bool")), "contNC")>>, {}),
      Prog(PNode, <<Lit(PNode, "noop")>>, {}),
      Prog(PNode, <<Lit(PPNode, "noop")>>, {}),
      Prog(PNode, <<Lit(PPNode, "set")>>, {}),
      Prog(PNode, <<Lit(PPNode, "set"), Lit(PNode, "noop")>>, {}),
      Prog(T("Tree"), <<Lit(PtrTo(T("Tree")), "set")>>, {}),
      Prog(T("M"), <<Lit(T("M"), "set")>>, {}),
      Prog(T("M"), <<Lit(PtrTo(T("M")), "set")>>, {}),
      Prog(T("M"), <<Lit(T("M"), "set")>>, {Meth("M", "ptr", "set")}),
      Prog(T("M"), <<Lit(T("M"), "set")>>, {Meth("M", "val", "noop")}),
      Prog(T("M"), <<>>, {Meth("M", "val", "set")}),
      Prog(T("Node"), <<Lit(PNode, "set")>>, {Meth("Node", "ptr", "noop")}),
      Prog(T("Node"), <<>>, {Meth("Node", "ptr", "contNC")}),
      Prog(T("Node"), <<>>, {Meth("Node", "val", "set")}),
      Prog(PNode, <<Lit(PNode, "set")>>, {Meth("Node", "val", "noop")}),
      Prog(PNode, <<>>, {Meth("Node", "ptr", "cont")}),
      Prog(PNode, <<>>, {Meth("Node", "ptr", "set")}),
      Prog(PNode, <<>>, {Meth("Node", "val", "noop")}) }

----------------------------------------------------------------------------
(* State *)

VARIABLES
    mode,      \* "single": one GreenRunner, one call at a time; "conc": one
               \* GreenRunner, two goroutines that call GreenRun on it
    prog,      \* the client program
    cfg,       \* the GreenRunner's fields, except r
    cfgPanic,  \* the last configuration call panicked, and the program has
               \* not gone on to generate yet
    pos,       \* per call: results drawn from r so far
    tape,      \* words of the stream drawn by GreenRunner 1 and not yet by 2
    counter,   \* per GreenRunner: the captured variable of a "counter" literal
    calls,     \* per GreenRunner: GreenRun calls started on it
    status,    \* per call: "idle", "running", "panicking", "done", "panicked"
    stack,     \* per call: the frames of doGreenRun and of the functions it calls
    curDepth,  \* per call: greenrunerContext.curDepth
    target,    \* per call: the value of the object passed to GreenRun, a
               \* fresh one for each call
    log        \* per call: what the current call invoked, in order

vars == << mode, prog, cfg, cfgPanic, pos, tape, counter, calls, status,
           stack, curDepth, target, log >>

CallIds == {1, 2}

\* the object before a call
InitVal == IF prog.init = "zero" THEN Zero(prog.t) ELSE Mark(prog.t)

\* the GreenRunner a call runs on
Runner(c) == IF mode = "twin" THEN c ELSE 1

\* NewWithSeed: the defaults .2, 1, 10 and 100, brought into the model's
\* ranges (1/NilScale, 1, MaxElems, MaxDepthBound)
NewWithSeed ==
    [ nilChance |-> F(1),
      minElements |-> 1,
      maxElements |-> MaxElems,
      maxDepth |-> MaxDepthBound,
      greenrunFuncs |-> {} ]

\* defaultGreenRunFuncs: reflect.TypeOf(&time.Time{}) -> greenrunTime
defaultGreenRunFuncs == { Lit(PtrTo(T("Time")), "time") }

InitCommon ==
    /\ \E p \in Programs, e \in Entries, o \in Objs, i \in Inits :
          prog = p @@ [entry |-> e, obj |-> o, init |-> i]
    /\ cfg = NewWithSeed
    /\ cfgPanic = FALSE
    /\ pos = [r \in CallIds |-> 0]
    /\ tape = <<>>
    /\ counter = [r \in CallIds |-> 0]
    /\ calls = [c \in CallIds |-> 0]
    /\ status = [c \in CallIds |-> "idle"]
    /\ stack = [c \in CallIds |-> <<>>]
    /\ curDepth = [c \in CallIds |-> 0]
    /\ target = [c \in CallIds |-> InitVal]
    /\ log = [c \in CallIds |-> <<>>]

Init == mode = "single" /\ InitCommon

----------------------------------------------------------------------------
(* Configuration calls *)

\* configuration happens before the first GreenRun call
Configuring == \A c \in CallIds : calls[c] = 0

NilChanceArgs == { F(-1), F(0), F(NilScale), F(NilScale + 1), NaN }

\* if p < 0 || p > 1 { panic(...) }
NilChancePanics(p) == FLt(p, F(0)) \/ FGt(p, F(NilScale))

NilChance(p) ==
    /\ Configuring
    /\ IF NilChancePanics(p)
       THEN cfgPanic' = TRUE /\ cfg' = cfg
       ELSE cfgPanic' = FALSE /\ cfg' = [cfg EXCEPT !.nilChance = p]
    /\ UNCHANGED << mode, prog, pos, tape, counter, calls, status, stack,
                    curDepth, target, log >>

\* if atLeast > atMost { panic } ; if atLeast < 0 { panic }
NumElementsPanics(atLeast, atMost) == atLeast > atMost \/ atLeast < 0

NumElements(atLeast, atMost) ==
    /\ Configuring
    /\ IF NumElementsPanics(atLeast, atMost)
       THEN cfgPanic' = TRUE /\ cfg' = cfg
       ELSE /\ cfgPanic' = FALSE
            /\ cfg' = [cfg EXCEPT !.minElements = atLeast,
                                  !.maxElements = atMost]
    /\ UNCHANGED << mode, prog, pos, tape, counter, calls, status, stack,
                    curDepth, target, log >>

MaxDepth(d) ==
    /\ Configuring
    /\ cfgPanic' = FALSE
    /\ cfg' = [cfg EXCEPT !.maxDepth = d]
    /\ UNCHANGED << mode, prog, pos, tape, counter, calls, status, stack,
                    curDepth, target, log >>

\* f.greenrunFuncs[argT] = v: a later literal for the same type replaces
\* the earlier one
Register(fs, lit) == { g \in fs : g.key # lit.key } \cup { lit }

\* case reflect.Ptr, reflect.Map: ; default: panic(...)
FuncOk(lit) == Kind(lit.key) \in {"ptr", "map"}

RECURSIVE FuncsLoop(_, _, _)
\* the loop of Funcs over its arguments from index i: the table when the
\* loop ends or panics
FuncsLoop(fs, fl, i) ==
    IF i > Len(fl) \/ ~FuncOk(fl[i]) THEN fs
    ELSE FuncsLoop(Register(fs, fl[i]), fl, i + 1)

Funcs ==
    /\ Configuring
    /\ prog.fl # <<>>
    /\ cfg.greenrunFuncs = {}
    /\ cfgPanic' = (\E i \in 1..Len(prog.fl) : ~FuncOk(prog.fl[i]))
    /\ cfg' = [cfg EXCEPT !.greenrunFuncs = FuncsLoop(@, prog.fl, 1)]
    /\ UNCHANGED << mode, prog, pos, tape, counter, calls, status, stack,
                    curDepth, target, log >>

----------------------------------------------------------------------------
(* The random stream.  A draw delivers the result of one rand.Rand method; *)
(* the results a method can deliver are the set the draw chooses from.     *)

\* r.Float64() and r.Uint32(): one of RandN raw words
Words == 0 .. (RandN - 1)
\* r.Intn(k), r.Int63n(k)
IntnSet(k) == 0 .. (k - 1)
\* r.Int() & 1
BitSet == {0, 1}

\* a stream that is not the one the seed determines
DrawSetUnseeded(r, S) == S

\* the results the next draw of GreenRunner r can deliver: GreenRunner 2 of
\* a twin pair reads the stream GreenRunner 1 has read from the same seed
DrawSet(r, S) ==
    IF mode = "twin" /\ r = 2 /\ tape # <<>> /\ Head(tape) \in S
    THEN {Head(tape)} ELSE S

\* the stream after the call c of GreenRunner r has drawn w
Drawn(c, r, w) ==
    /\ pos' = [pos EXCEPT ![c] = @ + 1]
    /\ tape' = IF mode # "twin" THEN tape
               ELSE IF r = 1 THEN Append(tape, w)
               ELSE IF tape # <<>> THEN Tail(tape) ELSE tape

\* f.r.Float64() > f.nilChance, for the word d drawn
genShouldFill(d) == FGt(Float64(d), cfg.nilChance)

\* genElementCount draws only when minElements # maxElements
CountDraws == cfg.minElements # cfg.maxElements
\* f.minElements + f.r.Intn(f.maxElements-f.minElements+1), for the result w
\* of Intn
genElementCount(w) ==
    IF cfg.minElements = cfg.maxElements THEN cfg.minElements
    ELSE cfg.minElements + w

\* uint64(r.Uint32())<<32 | uint64(r.Uint32()), on words of RandN values
randUint64(hi, lo) == hi * RandN + lo

----------------------------------------------------------------------------
(* Frames *)

\* a frame of doGreenRun(v, flags): v holds val, is settable iff canSet
DoFrame(typ, val, flags, canSet, role) ==
    [ fn |-> "do", typ |-> typ, flags |-> flags, pc |-> "enter",
      val |-> val, val0 |-> val, canSet |-> canSet, counted |-> FALSE,
      how |-> "none", via |-> "none", i |-> 1, n |-> 0, key |-> Nil,
      beh |-> "none", recv |-> "none", nilrecv |-> FALSE, role |-> role ]

\* a frame of a function literal, a GreenRun method or greenrunTime, called
\* on a referent of type typ holding val.  The function holds a pointer to
\* the referent (via "ptr"), the referent itself, a map ("map"), or a copy
\* of it, the receiver of a value method ("copy")
FnFrame(typ, val, beh, recv, nilrecv) ==
    [ fn |-> "fn", typ |-> typ, flags |-> 0, pc |-> "call",
      val |-> val, val0 |-> val, canSet |-> TRUE, counted |-> FALSE,
      how |-> "none",
      via |-> IF recv = "val"
              THEN IF Kind(typ) = "map" THEN "map" ELSE "copy"
              ELSE "ptr", i |-> 1, n |-> 0, key |-> Nil,
      beh |-> beh, recv |-> recv, nilrecv |-> nilrecv, role |-> "custom" ]

Top(c) == stack[c][Len(stack[c])]
Below(c) == SubSeq(stack[c], 1, Len(stack[c]) - 1)
\* replace the top frame
SetTop(c, f) == stack' = [stack EXCEPT ![c] = Append(Below(c), f)]
\* replace the top frame and call
Push(c, f, g) ==
    /\ Len(stack[c]) < MaxStack
    /\ stack' = [stack EXCEPT ![c] = Append(Append(Below(c), f), g)]

Running(c) == status[c] = "running" /\ stack[c] # <<>>
At(c, fn, pc) == Running(c) /\ Top(c).fn = fn /\ Top(c).pc = pc

\* panic(...): the call starts unwinding
Panic(c) == status' = [status EXCEPT ![c] = "panicking"]

\* call c runs while a call of the other goroutine runs on the same
\* GreenRunner: both use f.r, a *rand.Rand, which nothing synchronizes
Racing(c) ==
    mode = "conc" /\ \E d \in CallIds \ {c} : status[d] = "running"

\* a draw that races with the draws of the other call: besides delivering
\* some result of the method it can find the state of the source torn and
\* panic inside math/rand
RacePanic(c) == Racing(c) /\ Panic(c) /\ UNCHANGED << stack, pos, tape >>

flagNoCustomGreenRun == 1

----------------------------------------------------------------------------
(* tryCustom *)

NoHandler == [ok |-> FALSE, how |-> "none", beh |-> "none", recv |-> "none",
              alloc |-> FALSE]
Handler(how, beh, recv, alloc) ==
    [ok |-> TRUE, how |-> how, beh |-> beh, recv |-> recv, alloc |-> alloc]

Has(fs, K) == \E g \in fs : g.key = K
Get(fs, K) == CHOOSE g \in fs : g.key = K

\* the methods that put GreenRun(Continue) in the method set of type K:
\* for K = N the methods on receiver N, for K = *N those on N and on *N
Methods(K) ==
    { m \in prog.sg :
        \/ K = T(m.name) /\ m.recv = "val"
        \/ K = PtrTo(T(m.name)) }

\* intf.(Interface) succeeds
Implements(K) == Methods(K) # {}

\* tryCustom without the allocation of a nil pointer or map
KindSwitchNoAlloc(K, isNil, canSet, how, beh) ==
    IF Kind(K) \in {"ptr", "map"}
    THEN IF isNil /\ ~canSet THEN NoHandler ELSE Handler(how, beh, "lit", FALSE)
    ELSE NoHandler

\* the switch v.Kind() of tryCustom: whether doCustom gets called, and
\* whether v is allocated first
KindSwitch(K, isNil, canSet, how, beh) ==
    IF Kind(K) \in {"ptr", "map"}
    THEN IF isNil
         THEN IF ~canSet THEN NoHandler ELSE Handler(how, beh, "lit", TRUE)
         ELSE Handler(how, beh, "lit", FALSE)
    ELSE NoHandler

\* tryCustom(v) for v of type K
tryCustom(K, isNil, canSet) ==
    IF Has(cfg.greenrunFuncs, K)
    THEN KindSwitch(K, isNil, canSet, "override", Get(cfg.greenrunFuncs, K).beh)
    ELSE IF Implements(K)
    THEN LET m == CHOOSE m \in Methods(K) : TRUE
         IN Handler("selfgen", m.beh, m.recv, FALSE)
    ELSE IF Has(defaultGreenRunFuncs, K)
    THEN KindSwitch(K, isNil, canSet, "default", Get(defaultGreenRunFuncs, K).beh)
    ELSE NoHandler

\* v.IsNil() where tryCustom asks it
NilSlot(typ, val) == Kind(typ) \in {"ptr", "map"} /\ IsNil(val)

\* flags&flagNoCustomGreenRun == 0
LookupEnabled(flags) == flags # flagNoCustomGreenRun

\* lines 220-228: the handler found for a settable slot, through v.Addr()
\* first and then through v itself
Lookup(typ, val, flags) ==
    IF ~LookupEnabled(flags) THEN NoHandler @@ [via |-> "none"]
    ELSE LET a == tryCustom(PtrTo(typ), FALSE, FALSE)
             o == tryCustom(typ, NilSlot(typ, val), TRUE)
         IN IF a.ok THEN a @@ [via |-> "addr"]
            ELSE IF o.ok THEN o @@ [via |-> "own"]
            ELSE NoHandler @@ [via |-> "none"]

\* the value of the slot once tryCustom has allocated it
Allocated(typ, val) ==
    IF Kind(typ) = "ptr" THEN Ptr(Zero(Elem(typ))) ELSE MakeMap

\* the frame of the function tryCustom calls for the slot (typ, val), val
\* being allocated already: the referent is the slot itself when the
\* function got v.Addr(), the pointee when it got the pointer v, and the
\* map when it got the map v
CustomFrame(typ, val, h) ==
    IF h.via = "addr" THEN FnFrame(typ, val, h.beh, h.recv, FALSE)
    ELSE IF Kind(typ) = "ptr"
    THEN IF IsNil(val)
         THEN FnFrame(Elem(typ), Zero(Elem(typ)), h.beh, h.recv, TRUE)
         ELSE FnFrame(Elem(typ), val.e, h.beh, h.recv, FALSE)
    ELSE [FnFrame(typ, val, h.beh, h.recv, FALSE) EXCEPT !.via = "map"]

\* fillFuncMap[v.Kind()] exists
HasFillFunc(k) == k \in {"bool", "int", "complex128", "unsafeptr"}

----------------------------------------------------------------------------
(* GreenRun, GreenRunNoCustom *)

EntryFlags(entry) == IF entry = "GreenRun" THEN 0 ELSE flagNoCustomGreenRun

\* the calls of a twin pair are made in turn; each of two concurrent
\* goroutines makes one call, whenever it is scheduled
MayStart(c) ==
    CASE mode = "single" -> c = 1
      [] mode = "twin" ->
            IF c = 1 THEN calls[1] = calls[2] /\ status[2] \in {"idle", "done"}
            ELSE calls[2] < calls[1] /\ status[1] \in {"done", "panicked"}
      [] OTHER -> calls[c] = 0

\* a program that has function literals has passed them to Funcs before it
\* generates: without them it is the program of the same object that has none
Registered == prog.fl = <<>> \/ cfg.greenrunFuncs # {}

\* the objects that are new when call c starts: its own, and with the first
\* call of a round of a twin pair the object of the second as well
Fresh(c) == IF mode = "twin" /\ c = 1 THEN CallIds ELSE {c}

\* GreenRun(obj) / GreenRunNoCustom(obj) on a fresh object, with a fresh
\* greenrunerContext
StartCall(c) ==
    /\ status[c] \in {"idle", "done"}
    /\ calls[c] < MaxCalls
    /\ MayStart(c)
    /\ Registered
    /\ calls' = [calls EXCEPT ![c] = @ + 1]
    /\ log' = [d \in CallIds |-> IF d \in Fresh(c) THEN <<>> ELSE log[d]]
    /\ curDepth' = [curDepth EXCEPT ![c] = 0]
    /\ pos' = [d \in CallIds |-> IF d \in Fresh(c) THEN 0 ELSE pos[d]]
    /\ IF prog.obj = "nonptr"
       THEN /\ status' = [status EXCEPT ![c] = "panicked"]
            /\ stack' = stack
       ELSE /\ status' = [status EXCEPT ![c] = "running"]
            /\ stack' = [stack EXCEPT ![c] =
                  << DoFrame(prog.t, InitVal, EntryFlags(prog.entry),
                             prog.obj = "ptr", "top") >>]
    /\ target' = [d \in CallIds |->
                     IF d \in Fresh(c) THEN InitVal ELSE target[d]]
    /\ cfgPanic' = FALSE
    /\ UNCHANGED << mode, prog, cfg, tape, counter >>

----------------------------------------------------------------------------
(* doGreenRun *)

\* the guard on a depth counter kept in the GreenRunner, which its calls share
DepthExceededShared(c) == curDepth[1] + curDepth[2] >= cfg.maxDepth

\* the guard with > for >=
DepthExceededLate(c) == curDepth[c] > cfg.maxDepth

\* the guard comparing the depth of the step to be made
DepthExceededEarly(c) == curDepth[c] + 1 >= cfg.maxDepth

\* fc.curDepth >= fc.greenruner.maxDepth
DepthExceeded(c) == curDepth[c] >= cfg.maxDepth

\* a step that does not count itself
IncDepthNever(d) == d

\* fc.curDepth++
IncDepth(d) == d + 1

\* doGreenRun without the CanSet guard
CanSetAlways(f) == TRUE

\* v.CanSet()
CanSet(f) == f.canSet

\* flags handed down to the steps made
ChildFlagsInherit(flags) == flags

\* the flags doGreenRun passes to the steps it makes for keys, values,
\* pointees, elements and fields
ChildFlags(flags) == 0

\* lines 209-234 and 275-287: the guards, the lookup and the switch on the kind
Enter(c) ==
    /\ At(c, "do", "enter")
    /\ LET f == Top(c)
           g == [f EXCEPT !.counted = TRUE]
           h == Lookup(f.typ, f.val, f.flags)
           k == Kind(f.typ)
       IN IF DepthExceeded(c)
          THEN /\ SetTop(c, [f EXCEPT !.pc = "exit"])
               /\ UNCHANGED << curDepth, status, log >>
          ELSE /\ curDepth' = [curDepth EXCEPT ![c] = IncDepth(@)]
               /\ IF ~CanSet(f)
                  THEN /\ SetTop(c, [g EXCEPT !.pc = "exit"])
                       /\ UNCHANGED << status, log >>
                  ELSE IF h.ok
                  THEN LET v == IF h.alloc THEN Allocated(f.typ, f.val)
                                ELSE f.val
                       IN /\ Push(c, [g EXCEPT !.val = v, !.how = h.how,
                                               !.via = h.via, !.pc = "wait"],
                                  CustomFrame(f.typ, v, h))
                          /\ log' = [log EXCEPT ![c] = Append(@,
                                [ev |-> h.how,
                                 key |-> IF h.via = "addr" THEN PtrTo(f.typ)
                                         ELSE f.typ])]
                          /\ UNCHANGED status
                  ELSE IF HasFillFunc(k)
                  THEN /\ SetTop(c, [g EXCEPT !.how = "fill", !.pc = "fill"])
                       /\ UNCHANGED << status, log >>
                  ELSE IF k \in {"map", "ptr", "slice", "array"}
                  THEN /\ SetTop(c, [g EXCEPT !.how = "structural",
                                              !.pc = "shouldFill"])
                       /\ UNCHANGED << status, log >>
                  ELSE IF k = "struct"
                  THEN /\ SetTop(c, [g EXCEPT !.how = "structural",
                                              !.pc = "loop", !.i = 1,
                                              !.n = Len(Fields(f.typ))])
                       /\ UNCHANGED << status, log >>
                  ELSE /\ SetTop(c, [g EXCEPT !.how = "panic"])
                       /\ Panic(c)
                       /\ UNCHANGED log
    /\ UNCHANGED << mode, prog, cfg, cfgPanic, pos, tape, counter, calls,
                    target >>

\* lines 230-233 with fillFuncMap: randBool, greenrunInt (two Uint32 draws),
\* and the entries that panic("unimplemented")
Fill(c) ==
    /\ Running(c) /\ Top(c).fn = "do" /\ Top(c).pc \in {"fill", "fill2"}
    /\ LET f == Top(c)
           k == Kind(f.typ)
           r == Runner(c)
       IN IF k \in {"complex128", "unsafeptr"}
          THEN /\ Panic(c)
               /\ UNCHANGED << stack, pos, tape >>
          ELSE IF k = "bool"
          THEN \/ /\ \E w \in DrawSet(r, BitSet) :
                       /\ SetTop(c, [f EXCEPT !.val = Prim(w), !.pc = "exit"])
                       /\ Drawn(c, r, w)
                  /\ UNCHANGED status
               \/ RacePanic(c)
          ELSE IF f.pc = "fill"
          THEN \/ /\ \E w \in DrawSet(r, Words) :
                       /\ SetTop(c, [f EXCEPT !.key = Prim(w), !.pc = "fill2"])
                       /\ Drawn(c, r, w)
                  /\ UNCHANGED status
               \/ RacePanic(c)
          ELSE \/ /\ \E w \in DrawSet(r, Words) :
                       /\ SetTop(c, [f EXCEPT !.val = Prim(randUint64(f.key.x, w)),
                                              !.key = Nil, !.pc = "exit"])
                       /\ Drawn(c, r, w)
                  /\ UNCHANGED status
               \/ RacePanic(c)
    /\ UNCHANGED << mode, prog, cfg, cfgPanic, counter, calls, curDepth,
                    target, log >>

\* the genShouldFill draw of the map, pointer, slice and array cases
ShouldFill(c) ==
    /\ At(c, "do", "shouldFill")
    /\ LET f == Top(c)
           k == Kind(f.typ)
           r == Runner(c)
       IN \/ RacePanic(c)
          \/ \E w \in DrawSet(r, Words) :
            /\ UNCHANGED status
            /\ Drawn(c, r, w)
            /\ IF ~genShouldFill(w)
               THEN SetTop(c, [f EXCEPT !.val = Zero(f.typ), !.pc = "exit"])
               ELSE CASE k = "map" ->
                           SetTop(c, [f EXCEPT !.val = MakeMap, !.pc = "count"])
                      [] k = "slice" -> SetTop(c, [f EXCEPT !.pc = "count"])
                      [] k = "array" ->
                           SetTop(c, [f EXCEPT !.pc = "loop", !.i = 1,
                                               !.n = Len(f.val.s)])
                      [] k = "ptr" ->
                           Push(c, [f EXCEPT !.val = Ptr(Zero(Elem(f.typ))),
                                             !.pc = "wait"],
                                DoFrame(Elem(f.typ), Zero(Elem(f.typ)),
                                        ChildFlags(f.flags), TRUE, "ptr"))
    /\ UNCHANGED << mode, prog, cfg, cfgPanic, counter, calls, curDepth,
                    target, log >>

\* genElementCount of the map and slice cases, and MakeSlice
Count(c) ==
    /\ At(c, "do", "count")
    /\ LET f == Top(c)
           r == Runner(c)
           Set(n) == SetTop(c, [f EXCEPT !.n = n, !.i = 1, !.pc = "loop",
                                  !.val = IF Kind(f.typ) = "slice"
                                          THEN MakeSlice(f.typ, n) ELSE @])
       IN IF CountDraws
          THEN \/ RacePanic(c)
               \/ \E w \in DrawSet(r, IntnSet(cfg.maxElements - cfg.minElements + 1)) :
                  /\ Drawn(c, r, w)
                  /\ Set(genElementCount(w))
                  /\ UNCHANGED status
          ELSE /\ Set(genElementCount(0))
               /\ UNCHANGED << pos, tape, status >>
    /\ UNCHANGED << mode, prog, cfg, cfgPanic, counter, calls, curDepth,
                    target, log >>

\* one round of the loops over entries, elements and fields: the call of
\* doGreenRun for the next key, element or field, or the end of the loop
Loop(c) ==
    /\ At(c, "do", "loop")
    /\ LET f == Top(c)
           k == Kind(f.typ)
       IN IF f.i > f.n
          THEN SetTop(c, [f EXCEPT !.pc = "exit"])
          ELSE CASE k = "map" ->
                      Push(c, f, DoFrame(KeyOf(f.typ), Zero(KeyOf(f.typ)),
                                         ChildFlags(f.flags), TRUE, "mapkey"))
                 [] k = "struct" ->
                      Push(c, f, DoFrame(Fields(f.typ)[f.i].t, f.val.f[f.i],
                                         ChildFlags(f.flags),
                                         Fields(f.typ)[f.i].exp, "field"))
                 [] OTHER ->
                      Push(c, f, DoFrame(Elem(f.typ), f.val.s[f.i],
                                         ChildFlags(f.flags), TRUE, "elem"))
    /\ UNCHANGED << mode, prog, cfg, cfgPanic, pos, tape, counter, calls,
                    status, curDepth, target, log >>

\* lines 242-243: the value of a map entry, after its key
MapVal(c) ==
    /\ At(c, "do", "mapval")
    /\ LET f == Top(c)
       IN Push(c, [f EXCEPT !.pc = "wait"],
               DoFrame(Elem(f.typ), Zero(Elem(f.typ)), ChildFlags(f.flags),
                       TRUE, "mapval"))
    /\ UNCHANGED << mode, prog, cfg, cfgPanic, pos, tape, counter, calls,
                    status, curDepth, target, log >>

----------------------------------------------------------------------------
(* The functions tryCustom calls, and Continue *)

\* the body of a function literal, a GreenRun method or greenrunTime, up
\* to its call of Continue.GreenRun / Continue.GreenRunNoCustom, if any
FnCall(c) ==
    /\ At(c, "fn", "call")
    /\ LET f == Top(c)
           r == Runner(c)
           Done(v) == SetTop(c, [f EXCEPT !.val = v, !.pc = "exit"])
       IN CASE f.recv = "val" /\ f.nilrecv ->
                  \* a value-receiver method called through a nil pointer
                  /\ Panic(c)
                  /\ UNCHANGED << stack, pos, tape, counter >>
            [] f.recv # "val" /\ f.nilrecv /\ f.beh = "set" ->
                  \* *s = ... on a nil receiver
                  /\ Panic(c)
                  /\ UNCHANGED << stack, pos, tape, counter >>
            [] ~f.nilrecv /\ f.beh = "set" /\ f.via = "map" ->
                  IF IsNil(f.val)
                  THEN \* m[k] = v on a nil map
                       /\ Panic(c)
                       /\ UNCHANGED << stack, pos, tape, counter >>
                  ELSE /\ Done(SetMapIndex(f.val, Prim(1), Zero(Elem(f.typ))))
                       /\ UNCHANGED << status, pos, tape, counter >>
            [] ~f.nilrecv /\ f.beh = "set" /\ f.via # "map" ->
                  /\ Done(Mark(f.typ))
                  /\ UNCHANGED << status, pos, tape, counter >>
            [] ~(f.recv = "val" /\ f.nilrecv) /\ f.beh = "noop" ->
                  /\ Done(f.val)
                  /\ UNCHANGED << status, pos, tape, counter >>
            [] f.beh = "counter" ->
                  \* *i = counter; counter++
                  /\ Done(Prim(counter[r]))
                  /\ counter' = [counter EXCEPT ![r] = @ + 1]
                  /\ UNCHANGED << status, pos, tape >>
            [] f.beh = "rand" ->
                  \* *b = c.RandBool()
                  \/ /\ \E w \in DrawSet(r, BitSet) :
                           Done(Prim(w)) /\ Drawn(c, r, w)
                     /\ UNCHANGED << status, counter >>
                  \/ RacePanic(c) /\ UNCHANGED counter
            [] ~(f.recv = "val" /\ f.nilrecv) /\ f.beh \in {"cont", "contNC"} ->
                  \* c.GreenRun(p) / c.GreenRunNoCustom(p); the Elem() of a
                  \* nil p is not settable
                  /\ Push(c, [f EXCEPT !.pc = "wait"],
                          DoFrame(f.typ, f.val,
                                  IF f.beh = "cont" THEN 0
                                  ELSE flagNoCustomGreenRun,
                                  ~f.nilrecv, "cont"))
                  /\ UNCHANGED << status, pos, tape, counter >>
            [] f.beh = "time" ->
                  \* greenrunTime: sec = c.Rand.Int63n(...); c.GreenRun(&nsec)
                  \/ /\ \E w \in DrawSet(r, IntnSet(RandN)) :
                           /\ Drawn(c, r, w)
                           /\ Push(c, [f EXCEPT !.key = Prim(w), !.pc = "wait"],
                                   DoFrame(T("int"), Prim(0), 0, TRUE, "nsec"))
                     /\ UNCHANGED << status, counter >>
                  \/ RacePanic(c) /\ UNCHANGED counter
    /\ UNCHANGED << mode, prog, cfg, cfgPanic, calls, curDepth, target, log >>

\* the writes of a function are lost on a copy, and a nil receiver refers
\* to nothing
Discards(f) == f.nilrecv \/ f.via = "copy"

\* time.Unix(sec, nsec)
Unix(sec, nsec) == StructV(<< Prim(sec * RandN * RandN + nsec) >>)

\* the frame p of the caller once the callee's frame f is gone: the callee
\* has written f.val to the slot it was called on; when the callee has
\* returned (and not panicked) the caller moves on
Plumb(p, f, returned) ==
    LET q == CASE f.role = "field" ->
                    [p EXCEPT !.val = StructV([p.val.f EXCEPT ![p.i] = f.val]),
                              !.i = @ + 1]
               [] f.role = "elem" ->
                    [p EXCEPT !.val = SeqV([p.val.s EXCEPT ![p.i] = f.val]),
                              !.i = @ + 1]
               [] f.role = "ptr" ->
                    [p EXCEPT !.val = Ptr(f.val), !.pc = "exit"]
               [] f.role = "mapkey" ->
                    IF returned THEN [p EXCEPT !.key = f.val, !.pc = "mapval"]
                    ELSE p
               [] f.role = "mapval" ->
                    IF returned
                    THEN [p EXCEPT !.val = SetMapIndex(p.val, p.key, f.val),
                                   !.key = Nil, !.i = @ + 1, !.pc = "loop"]
                    ELSE p
               [] f.role = "cont" ->
                    [p EXCEPT !.val = f.val, !.pc = "exit"]
               [] f.role = "nsec" ->
                    IF returned
                    THEN [p EXCEPT !.val = Unix(p.key.x, f.val.x),
                                   !.key = Nil, !.pc = "exit"]
                    ELSE p
               [] f.role = "custom" ->
                    [p EXCEPT !.val = IF Discards(f) THEN @
                                      ELSE IF p.via = "own" /\ Kind(p.typ) = "ptr"
                                      THEN Ptr(f.val) ELSE f.val,
                              !.pc = "exit"]
    IN q

\* a decrement written at the end of doGreenRun, which a panic skips
DecDepthOnReturn(counted, returned, d) ==
    IF counted /\ returned THEN d - 1 ELSE d

\* defer func() { fc.curDepth-- }(): registered once the step is past the
\* depth guard, and run however the step ends
DecDepth(counted, returned, d) == IF counted THEN d - 1 ELSE d

\* the frame at the top goes away: the deferred fc.curDepth-- runs if the
\* step got past the depth guard
Pop(c, returned) ==
    LET f == Top(c)
        rest == Below(c)
    IN /\ curDepth' = [curDepth EXCEPT ![c] =
                          DecDepth(f.counted, returned, @)]
       /\ IF rest = <<>>
          THEN /\ stack' = [stack EXCEPT ![c] = <<>>]
               /\ target' = [target EXCEPT ![c] = f.val]
               /\ status' = [status EXCEPT ![c] =
                                IF returned THEN "done" ELSE "panicked"]
          ELSE /\ stack' = [stack EXCEPT ![c] =
                     Append(SubSeq(rest, 1, Len(rest) - 1),
                            Plumb(rest[Len(rest)], f, returned))]
               /\ UNCHANGED << target, status >>

\* return from doGreenRun or from a custom function
Return(c) ==
    /\ Running(c) /\ Top(c).pc = "exit"
    /\ Pop(c, TRUE)
    /\ UNCHANGED << mode, prog, cfg, cfgPanic, pos, tape, counter, calls, log >>

\* a panic leaves one frame
Unwind(c) ==
    /\ status[c] = "panicking"
    /\ stack[c] # <<>>
    /\ Pop(c, FALSE)
    /\ UNCHANGED << mode, prog, cfg, cfgPanic, pos, tape, counter, calls, log >>

----------------------------------------------------------------------------
(* Specifications *)

Configure ==
    \/ \E p \in NilChanceArgs : NilChance(p)
    \/ \E a, b \in -1 .. MaxElems : NumElements(a, b)
    \/ \E d \in -1 .. MaxDepthBound : MaxDepth(d)
    \/ Funcs

Step(c) ==
    \/ Enter(c)
    \/ Fill(c)
    \/ ShouldFill(c)
    \/ Count(c)
    \/ Loop(c)
    \/ MapVal(c)
    \/ FnCall(c)
    \/ Return(c)
    \/ Unwind(c)

Next ==
    \/ Configure
    \/ \E c \in CallIds : StartCall(c)
    \/ \E c \in CallIds : Step(c)

Spec == Init /\ [][Next]_vars

TypeOK ==
    /\ \A c \in CallIds : status[c] \in {"idle", "running", "panicking", "done", "panicked"}
    /\ \A c \in CallIds : Len(stack[c]) <= MaxStack

----------------------------------------------------------------------------
(* Properties *)

\* the frames of doGreenRun on the stack of call c, by position
DoFrames(c) == { i \in 1..Len(stack[c]) : stack[c][i].fn = "do" }

\* a step that got past both guards and has dispatched
Dispatched(f) == f.fn = "do" /\ f.counted /\ f.canSet /\ f.how # "none"

\* slot type t has a registered override: func(*t, Continue), or
\* func(t, Continue) for a pointer or map type t
HasOverride(t) ==
    \/ Has(cfg.greenrunFuncs, PtrTo(t))
    \/ Kind(t) \in {"ptr", "map"} /\ Has(cfg.greenrunFuncs, t)

\* C1 (as claimed): a step with lookup enabled on a settable slot, below
\* maxDepth, whose type has a registered override invokes the override and
\* nothing else: no self-generation, no default, no structural generation
C1_OverridePrecedence ==
    \A c \in CallIds : \A i \in DoFrames(c) :
        LET f == stack[c][i]
        IN (Dispatched(f) /\ LookupEnabled(f.flags) /\ HasOverride(f.typ))
              => f.how = "override"

\* C2 (as claimed): with NilChance(0) and NumElements(1,1) every pointer,
\* map and slice slot generated structurally is non-nil after its step, and
\* every generated map and slice has exactly 1 entry
C2_NilBoundary ==
    (cfg.nilChance = F(0) /\ cfg.minElements = 1 /\ cfg.maxElements = 1)
    => \A c \in CallIds : \A i \in DoFrames(c) :
          LET f == stack[c][i]
          IN (f.how = "structural" /\ f.pc = "exit"
                /\ Kind(f.typ) \in {"ptr", "map", "slice"})
                => /\ ~IsNil(f.val)
                   /\ Kind(f.typ) \in {"map", "slice"} => LenV(f.val) = 1

\* the step of call c at the top of its stack is entered at or above the
\* depth ceiling
AtCeiling(c) == At(c, "do", "enter") /\ curDepth[c] >= cfg.maxDepth

\* C3: a step entered while curDepth >= maxDepth returns without touching
\* its slot, the random stream, any override or self-generation, and
\* without panicking, also on a slot of an unsupported kind; and with
\* maxDepth <= 0 a call on a pointer never panics and the object keeps the
\* value it had
C3_DepthCeiling ==
    /\ [](\A c \in CallIds :
            cfg.maxDepth <= 0 =>
               /\ target[c] = InitVal
               /\ status[c] # "panicking"
               /\ status[c] = "panicked" => prog.obj = "nonptr")
    /\ [][\A c \in CallIds :
            (AtCeiling(c) /\ stack'[c] # stack[c]) =>
               /\ stack'[c] = Append(Below(c), [Top(c) EXCEPT !.pc = "exit"])
               /\ UNCHANGED << pos, tape, counter, log, status, curDepth,
                               target >>]_vars

\* C3 witness: a step on a settable slot of an unsupported kind, entered at
\* the ceiling below the top level, is about to return
C3_Witness ==
    \E c \in CallIds :
        /\ Running(c) /\ Len(stack[c]) > 1
        /\ Top(c).fn = "do" /\ Top(c).pc = "exit" /\ ~Top(c).counted
        /\ Top(c).canSet /\ Kind(Top(c).typ) = "chan"
        /\ cfg.maxDepth > 0

C5_AutoAllocationAsClaimed ==
    \A c \in CallIds : \A i \in DoFrames(c) :
        LET f == stack[c][i]
        IN (f.how \in {"override", "default"} /\ Kind(f.typ) \in {"ptr", "map"})
              => ~IsNil(f.val)

\* C5 (amended): whenever an override or built-in default registered for
\* the slot's own pointer or map type is invoked, the slot has been
\* allocated if it was nil, whatever nilChance is: the function gets a
\* non-nil pointer or map, and the slot is non-nil when the step returns
C5_AutoAllocation ==
    \A c \in CallIds : \A i \in DoFrames(c) :
        LET f == stack[c][i]
        IN (f.how \in {"override", "default"} /\ f.via = "own")
              => /\ Kind(f.typ) \in {"ptr", "map"}
                 /\ ~IsNil(f.val)
                 /\ i < Len(stack[c]) =>
                       /\ stack[c][i + 1].fn = "fn"
                       /\ ~stack[c][i + 1].nilrecv
                       /\ Kind(f.typ) = "map" => ~IsNil(stack[c][i + 1].val)

\* C5 witness: with NilChance(1) a nil pointer slot has been allocated for
\* a function registered for its type, and the step is about to return
C5_Witness ==
    \E c \in CallIds :
        /\ Running(c) /\ Top(c).fn = "do" /\ Top(c).pc = "exit"
        /\ Top(c).how \in {"override", "default"} /\ Top(c).via = "own"
        /\ IsNil(Top(c).val0) /\ ~IsNil(Top(c).val)
        /\ cfg.nilChance = F(NilScale)

\* the roles of the steps doGreenRun makes by structural recursion
Structural == {"field", "elem", "ptr", "mapkey", "mapval"}

\* C6: the no-override flag stays on the slot GreenRunNoCustom or
\* Continue.GreenRunNoCustom is called on: that step invokes no override,
\* self-generation or default, and every step made from it by structural
\* recursion has the flag clear and invokes the handler its type has
C6_FlagNotPropagated ==
    \A c \in CallIds : \A i \in DoFrames(c) :
        LET f == stack[c][i]
        IN /\ f.flags = flagNoCustomGreenRun =>
                 /\ f.role \in {"top", "cont"}
                 /\ f.how \notin {"override", "selfgen", "default"}
           /\ f.role \in Structural =>
                 /\ f.flags = 0
                 /\ (Dispatched(f) /\ Lookup(f.typ, f.val0, 0).ok)
                       => f.how = Lookup(f.typ, f.val0, 0).how

\* C6 witness: a step reached by structural recursion from a step with the
\* flag set, on a slot of the type of the object, has invoked an override
C6_Witness ==
    \E c \in CallIds : \E i \in DoFrames(c) : \E j \in 1 .. (i - 1) :
        /\ stack[c][j].fn = "do"
        /\ stack[c][j].flags = flagNoCustomGreenRun
        /\ \A k \in (j + 1) .. i : /\ stack[c][k].fn = "do"
                                   /\ stack[c][k].role \in Structural
        /\ stack[c][i].how = "override"
        /\ stack[c][i].typ = prog.t

\* a call of a twin pair is over or not begun
Settled(c) == status[c] \in {"idle", "done", "panicked"}

\* C7: two GreenRunners with the same seed and configuration that have
\* made the same calls on objects of the same type and initial value have
\* drawn the same results from their streams and hold the same values
C7_Determinism ==
    (mode = "twin" /\ calls[1] = calls[2] /\ Settled(1))
    => /\ pos[2] + Len(tape) = pos[1]
       /\ Settled(2) =>
             /\ tape = <<>>
             /\ target[1] = target[2]
             /\ status[1] = status[2]
             /\ counter[1] = counter[2]
             /\ log[1] = log[2]

\* C7 witness: both GreenRunners have returned from their last call, having
\* drawn from the stream and changed the object
C7_Witness ==
    /\ mode = "twin"
    /\ calls[1] = MaxCalls /\ calls[2] = MaxCalls
    /\ status[1] = "done" /\ status[2] = "done"
    /\ pos[1] > 1
    /\ target[1] # InitVal

\* the program of the counter scenario: a struct with one exported int
\* field, and func(i *int, c Continue) { *i = counter; counter++ }
CounterScenario ==
    /\ prog.t = T("Counter") /\ prog.entry = "GreenRun" /\ prog.obj = "ptr"
    /\ Lit(PtrTo(T("int")), "counter") \in cfg.greenrunFuncs

\* the overrides the current call of c has invoked
Overrides(c) == { i \in 1..Len(log[c]) : log[c][i].ev = "override" }

\* the k-th call (from 0) has invoked the override once and left k
CounterHolds(c) ==
    /\ Cardinality(Overrides(c)) = 1
    /\ target[c].f[1] = Prim(calls[c] - 1)

\* C8 (as claimed): in the counter scenario every call invokes the override
\* exactly once and leaves the field equal to the index of the call
C8_CounterAsClaimed ==
    \A c \in CallIds : (CounterScenario /\ status[c] = "done") => CounterHolds(c)

\* C8 (amended): the same on a GreenRunner with maxDepth >= 2, the field
\* being one step below the struct
C8_Counter ==
    \A c \in CallIds :
        (CounterScenario /\ cfg.maxDepth >= 2 /\ status[c] = "done")
            => CounterHolds(c)

\* C8 witness: the last of the calls has returned and left its index
C8_Witness ==
    /\ CounterScenario /\ cfg.maxDepth >= 2
    /\ status[1] = "done" /\ calls[1] = MaxCalls
    /\ target[1].f[1] = Prim(MaxCalls - 1)

\* the kinds doGreenRun has no generator for
Unsupported == {"complex128", "unsafeptr", "chan", "func", "interface"}

\* call c takes a step
Moves(c) == stack'[c] # stack[c] \/ status'[c] # status[c]

\* C9: a step on a settable slot of an unsupported kind, below maxDepth and
\* not handled by an override, self-generation or a default, panics, and
\* the panic ends the call; a step on a slot that cannot be set returns
\* without panicking and leaves the slot as it was, whatever its kind
C9_FatalKinds ==
    /\ [](\A c \in CallIds : \A i \in DoFrames(c) :
            LET f == stack[c][i]
            IN /\ (Dispatched(f) /\ Kind(f.typ) \in Unsupported
                     /\ f.how \notin {"override", "selfgen", "default"})
                     => \/ status[c] = "panicking"
                        \/ i = Len(stack[c]) /\ f.pc = "fill"
               /\ ~f.canSet => f.val = f.val0 /\ f.how = "none")
    /\ [][\A c \in CallIds :
            /\ (At(c, "do", "fill") /\ Kind(Top(c).typ) \in Unsupported
                  /\ Moves(c)) => status'[c] = "panicking"
            /\ status[c] = "panicking" => status'[c] \in {"panicking", "panicked"}
            /\ (At(c, "do", "enter") /\ ~Top(c).canSet /\ Moves(c))
                  => /\ status'[c] = "running"
                     /\ Len(stack'[c]) = Len(stack[c])
                     /\ stack'[c][Len(stack[c])].pc = "exit"
                     /\ stack'[c][Len(stack[c])].val = Top(c).val]_vars

\* C9 witness: the step on the unexported chan field of Hidden, below
\* maxDepth, is about to return
C9_Witness ==
    \E c \in CallIds :
        /\ Running(c) /\ Top(c).fn = "do" /\ Top(c).pc = "exit"
        /\ Top(c).counted /\ ~Top(c).canSet /\ Kind(Top(c).typ) = "chan"

\* Go's <= on float64
FLe(a, b) == ~a.nan /\ ~b.nan /\ a.v <= b.v

\* C10 (as claimed): after any sequence of configuration calls
\* 0 <= nilChance <= 1 and 0 <= minElements <= maxElements hold, and every
\* generated element count lies in [minElements, maxElements]
C10_ConfigValid ==
    /\ FLe(F(0), cfg.nilChance) /\ FLe(cfg.nilChance, F(NilScale))
    /\ 0 <= cfg.minElements /\ cfg.minElements <= cfg.maxElements
    /\ \A c \in CallIds : \A i \in DoFrames(c) :
          LET f == stack[c][i]
          IN (Kind(f.typ) \in {"map", "slice"} /\ f.pc \in {"loop", "mapval"})
                => cfg.minElements <= f.n /\ f.n <= cfg.maxElements

\* the steps of call c that are past the depth guard and have not left
Counted(c) == { i \in DoFrames(c) : stack[c][i].counted }

\* C11: curDepth is the number of steps of the call that are past the depth
\* guard and have not left yet, so a step leaves it as it found it, by
\* return or by panic, and a slot is entered at the depth its chain of
\* enclosing steps gives it, whatever earlier siblings did; with
\* maxDepth >= 0 it stays within 0 .. maxDepth; a step re-entered through
\* Continue is entered above the step that invoked the function; and it is
\* 0 when the call is over
C11_ScopedDepth ==
    \A c \in CallIds :
        /\ curDepth[c] = Cardinality(Counted(c))
        /\ cfg.maxDepth >= 0 => (0 <= curDepth[c] /\ curDepth[c] <= cfg.maxDepth)
        /\ \A i \in DoFrames(c) :
              stack[c][i].role \in {"cont", "nsec"}
                 => \E j \in Counted(c) : j < i /\ stack[c][j].pc = "wait"
        /\ status[c] \in {"idle", "done", "panicked"} => curDepth[c] = 0

\* C11 witness: the second element of an array is entered at the depth the
\* first was entered at, after the step of the first has gone one deeper
\* and come back
C11_Witness ==
    \E c \in CallIds :
        /\ At(c, "do", "enter") /\ Len(stack[c]) = 2
        /\ Top(c).role = "elem" /\ stack[c][1].i = 2
        /\ ~Top(c).counted
        /\ stack[c][1].val.s[1] # Zero(T("bool"))
        /\ curDepth[c] = 1 /\ cfg.maxDepth >= 2

\* call c takes the step that enters doGreenRun
Enters(c) == At(c, "do", "enter") /\ Moves(c)

\* that step returns at the depth guard
Truncated(c) ==
    /\ Enters(c)
    /\ status'[c] = "running"
    /\ Len(stack'[c]) = Len(stack[c])
    /\ stack'[c][Len(stack[c])] = [Top(c) EXCEPT !.pc = "exit"]

\* C12: with two calls running on one GreenRunner in any interleaving, each
\* call has a depth counter of its own: it counts the call's own steps, only
\* a step of the call changes it, and a step is cut off at the depth guard
\* exactly when maxDepth of the call's own steps enclose it, as in a call
\* that runs alone; a step moves one call and leaves the frames, the object
\* and the depth of the other alone, and no step of a call changes the
\* GreenRunner's configuration: of the GreenRunner only the stream, from
\* which each call draws in turn, changes
C12_ContextIsolation ==
    /\ [](\A c \in CallIds : curDepth[c] = Cardinality(Counted(c)))
    /\ [][\A c \in CallIds :
            /\ Enters(c) =>
                  (Truncated(c) <=> Cardinality(Counted(c)) >= cfg.maxDepth)
            /\ Moves(c) =>
                  \A d \in CallIds \ {c} :
                      /\ ~Moves(d)
                      /\ curDepth'[d] = curDepth[d]
                      /\ target'[d] = target[d]
                      /\ pos'[d] = pos[d]
            /\ curDepth'[c] # curDepth[c] => Moves(c)
            /\ pos'[c] # pos[c] => (Moves(c) \/ status[c] # "running")
            /\ status[c] \in {"running", "panicking"} => cfg' = cfg]_vars

\* C12 witness: both calls run and have drawn from the stream; the first
\* is cut off at the depth guard while the second, entered at a lesser
\* depth, is not
C12_Witness ==
    /\ mode = "conc"
    /\ pos[1] > 0 /\ pos[2] > 0
    /\ At(1, "do", "enter") /\ curDepth[1] >= cfg.maxDepth
    /\ At(2, "do", "enter") /\ curDepth[2] < cfg.maxDepth
    /\ curDepth[2] > 0

----------------------------------------------------------------------------
(* Further specifications *)

\* two GreenRunners made by NewWithSeed with the same seed, configured
\* alike, each filling its own object
\* the programs run on a twin pair: they draw values, nil decisions and
\* element counts, and their function literals draw from Continue, keep a
\* counter, or panic
TwinTargets ==
    { T("bool"), T("[]bool"), T("map[bool]bool"), T("Counter"), T("chan"),
      PtrTo(T("Time")) }

InitTwin == mode = "twin" /\ InitCommon /\ prog.t \in TwinTargets

SpecTwin == InitTwin /\ [][Next]_vars

\* the programs two goroutines run on one GreenRunner
ConcTargets ==
    { T("bool"), T("map[bool]bool"), T("Node"), T("Counter"), T("chan") }

InitConc ==
    /\ mode = "conc" /\ InitCommon
    /\ prog.t \in ConcTargets /\ prog.sg = {}
    /\ prog.init = "zero" /\ prog.obj = "ptr"

\* the steps of the two calls in any order
SpecConc == InitConc /\ [][Next]_vars

\* the programs whose object is of a self-referential type
CyclicTargets == { T("Node"), PNode, T("Tree"), T("Web") }

InitCyclic == Init /\ prog.t \in CyclicTargets /\ prog.init = "zero"

\* a call that can take a step takes one: GreenRun runs on the caller's
\* goroutine and nothing suspends it
FairSpec == InitCyclic /\ [][Next]_vars /\ \A c \in CallIds : WF_vars(Step(c))

====
